---- MODULE Spec2Model ----
(***************************************************************************)
(* Model of viz_tools.py (dipaco/shallow-water): the frame-render-encode   *)
(* loop of eta_animation / velocity_animation / eta_animation3D, the       *)
(* joblib worker pool of eta_meshes, and the arithmetic of get_mesh and    *)
(* its nested sdf.                                                         *)
(*                                                                         *)
(* Python floats are binary floating point numbers rounded to nearest,     *)
(* ties to even.  They are modelled with the same rounding rule and a      *)
(* mantissa of MantBits bits (an IEEE double has 53; TLC integers are      *)
(* 32 bits wide, so the precision is a parameter of the model).            *)
(***************************************************************************)
EXTENDS Integers, Sequences, FiniteSets, TLC

VARIABLES
    \* ---- get_mesh / sdf arithmetic -------------------------------------
    bounds,      \* <<lower, upper>>, each <<x, y, z>> (integers)
    res,         \* target resolution
    shape,       \* eta.shape = <<shape[0], shape[1]>>
    eta,         \* height field: [<<col, row>> -> float]
    gpc,         \* position of the arithmetic run
    resxyz,      \* <<resx, resy, resz>> once computed
    point,       \* the point sdf was evaluated at
    sdfOut       \* what sdf did there: [col, row, d] or an error

VARIABLES
    \* ---- eta_animation / velocity_animation / eta_animation3D -----------
    func,        \* which of the three functions is called
    writer,      \* the writer argument
    N,           \* len(eta_list) (len(u_list) for velocity_animation)
    Xmin,        \* min(*X.shape)
    pc,          \* position in the function body
    i,           \* loop variable
    shown,       \* snapshot the plot object currently shows
    frame,       \* image opened from the frame file
    video,       \* the local video: "unbound", "open" or "released"
    opens,       \* number of cv2.VideoWriter objects constructed
    framesDir,   \* out_folder/frames exists
    dir0,        \* whether it existed when the call started
    files,       \* frame files: [name -> snapshot rendered in it]
    videoFile,   \* out_folder/video.mp4: [exists, frames]
    result       \* "0" once the call returned 0, or the exception raised

VARIABLES
    \* ---- eta_meshes -----------------------------------------------------
    n,           \* len(eta_list)
    cpu,         \* multiprocessing.cpu_count()
    bad,         \* snapshots whose surface extraction raises
    mpc,         \* position of eta_meshes (the pool owner)
    task,        \* state of each delayed get_mesh call
    meshDir,     \* meshes_folder exists
    writes,      \* mesh files: [name -> sequence of tasks that wrote it]
    order,       \* tasks in order of completion (the progress counter)
    queuedAtFail,  \* tasks still queued when the first task failed
    queuedAtAbort, \* tasks still queued when the pool was aborted
    mresult      \* "0" once eta_meshes returned 0, or "error"

geomVars == <<bounds, res, shape, eta, gpc, resxyz, point, sdfOut>>

animVars == <<func, writer, N, Xmin, pc, i, shown, frame, video, opens,
              framesDir, dir0, files, videoFile, result>>

meshVars == <<n, cpu, bad, mpc, task, meshDir, writes, order,
              queuedAtFail, queuedAtAbort, mresult>>

vars == <<geomVars, animVars, meshVars>>

----------------------------------------------------------------------------
(* Bounds of the model *)
MantBits  == 8      \* mantissa width of the modelled floats
MaxShape  == 6      \* eta.shape[k] ranges over 1..MaxShape
MaxSpan   == 2      \* x_max - x_min, y_max - y_min range over 1..MaxSpan (sdf)
MaxSamples == 3     \* lattice of up to MaxSamples intervals per axis (sdf)
MaxExtent == 13     \* box extents range over 1..MaxExtent (resolutions)
MaxRes    == 25      \* res ranges over 1..MaxRes
MaxFrames == 11     \* snapshot sequences of 0..MaxFrames entries (animations)
MaxTasks  == 4      \* snapshot sequences of 0..MaxTasks entries (meshes)

----------------------------------------------------------------------------
(* Binary floating point: [m, e] is m * 2^e, normalised so that            *)
(* 2^(MantBits-1) <= |m| < 2^MantBits, or m = 0 and e = 0.                 *)

Abs(k) == IF k < 0 THEN -k ELSE k
Min2(a, b) == IF a <= b THEN a ELSE b

FNeg(a) == [m |-> -a.m, e |-> a.e]

RECURSIVE RoundPos(_, _, _)
\* nearest float to (p / d) * 2^e for p >= 0, d > 0; ties to even
RoundPos(p, d, e) ==
    IF p = 0 THEN [m |-> 0, e |-> 0]
    ELSE IF p >= d * 2^MantBits THEN RoundPos(p, 2 * d, e + 1)
    ELSE IF p < d * 2^(MantBits - 1) THEN RoundPos(2 * p, d, e - 1)
    ELSE LET q  == p \div d
             r  == p % d
             up == 2 * r > d \/ (2 * r = d /\ q % 2 = 1)
             m  == IF up THEN q + 1 ELSE q
         IN  IF m = 2^MantBits THEN [m |-> 2^(MantBits - 1), e |-> e + 1]
                               ELSE [m |-> m, e |-> e]

Round(p, d, e) == IF p < 0 THEN FNeg(RoundPos(-p, d, e)) ELSE RoundPos(p, d, e)

\* int -> float conversion
FromInt(k) == Round(k, 1, 0)

FMul(a, b) == Round(a.m * b.m, 1, a.e + b.e)

\* b # 0
FDiv(a, b) == Round(IF b.m < 0 THEN -a.m ELSE a.m, Abs(b.m), a.e - b.e)

FAdd(a, b) ==
    LET e == Min2(a.e, b.e)
    IN  Round(a.m * 2^(a.e - e) + b.m * 2^(b.e - e), 1, e)

FSub(a, b) == FAdd(a, FNeg(b))

\* a <= b on floats
FLeq(a, b) ==
    LET e == Min2(a.e, b.e)
    IN  a.m * 2^(a.e - e) <= b.m * 2^(b.e - e)

FMax(a, b) == IF FLeq(a, b) THEN b ELSE a

\* Python int(float): truncation toward zero
int(a) ==
    IF a.e >= 0 THEN a.m * 2^a.e
    ELSE IF a.m < 0 THEN -((-a.m) \div 2^(-a.e))
    ELSE a.m \div 2^(-a.e)

\* exact value of a float as a fraction Num/Den, Den > 0
Num(a) == IF a.e >= 0 THEN a.m * 2^a.e ELSE a.m
Den(a) == IF a.e >= 0 THEN 1 ELSE 2^(-a.e)

----------------------------------------------------------------------------
(* get_mesh: per-axis resolutions (lines 84-91) *)

\* int(res / rg * extent): the quotient is rounded before the product
AxisRes(r, rg, extent) == int(FMul(FDiv(FromInt(r), rg), extent))

get_mesh_res(b, r) ==
    LET ex == FSub(FromInt(b[2][1]), FromInt(b[1][1]))
        ey == FSub(FromInt(b[2][2]), FromInt(b[1][2]))
        ez == FSub(FromInt(b[2][3]), FromInt(b[1][3]))
        rg == FMax(ex, FMax(ey, ez))
    IN  <<AxisRes(r, rg, ex), AxisRes(r, rg, ey), AxisRes(r, rg, ez)>>

----------------------------------------------------------------------------
(* get_mesh.sdf (lines 94-98), closed over eta and bounds *)

\* int((len - 1) * (v - lo) / (hi - lo)), evaluated left to right
\* variant: scales by len instead of len - 1
ScaledIndex_n(len, v, lo, hi) ==
    int(FDiv(FMul(FromInt(len), FSub(v, lo)), FSub(hi, lo)))

\* variant: rounds to the nearest index instead of truncating
ScaledIndex_round(len, v, lo, hi) ==
    LET t == FDiv(FMul(FromInt(len - 1), FSub(v, lo)), FSub(hi, lo))
    IN  int(FAdd(t, [m |-> 2^(MantBits - 1), e |-> -MantBits]))

ScaledIndex(len, v, lo, hi) ==
    int(FDiv(FMul(FromInt(len - 1), FSub(v, lo)), FSub(hi, lo)))

\* numpy indexing eta[col, row]: -len <= k < 0 wraps to len + k, else IndexError
InRange(k, len) == -len <= k /\ k < len
Wrap(k, len) == IF k < 0 THEN len + k ELSE k

sdf(e, sh, b, x, y, z) ==
    LET col == ScaledIndex(sh[1], x, FromInt(b[1][1]), FromInt(b[2][1]))
        row == ScaledIndex(sh[2], y, FromInt(b[1][2]), FromInt(b[2][2]))
    IN  IF InRange(col, sh[1]) /\ InRange(row, sh[2])
        THEN [col |-> col, row |-> row, err |-> "none",
              d |-> FSub(e[<<Wrap(col, sh[1]), Wrap(row, sh[2])>>], z)]
        ELSE [col |-> col, row |-> row, err |-> "IndexError", d |-> FromInt(0)]

\* physical position of height-field cell c on an axis with len cells:
\* lo + c * (hi - lo) / (len - 1)
CellPos(c, len, lo, hi) ==
    FAdd(FromInt(lo),
         FDiv(FMul(FromInt(c), FSub(FromInt(hi), FromInt(lo))), FromInt(len - 1)))

\* lattice point k of g intervals, as marching_cubes_func walks the box:
\* lower + dx * k with dx = (upper - lower) / g
SamplePos(k, g, lo, hi) ==
    FAdd(FromInt(lo),
         FMul(FDiv(FSub(FromInt(hi), FromInt(lo)), FromInt(g)), FromInt(k)))

\* height fields: a ramp with a different height in every cell (so that a
\* wrong cell shows in d), and the all-zero field
Cells(sh) == (0 .. sh[1] - 1) \X (0 .. sh[2] - 1)
RampField(sh) == [c \in Cells(sh) |-> FromInt(c[1] * sh[2] + c[2] + 1)]
FlatField(sh) == [c \in Cells(sh) |-> FromInt(0)]

NoPoint == [kind |-> "none"]
NoOut   == [err |-> "unset"]
NoRes   == <<>>

\* the parts of the state a specification does not use
NoFrame == -1
NoFile  == [exists |-> FALSE, frames |-> <<>>]
None    == "None"

AnimIdle ==
    /\ func = "none" /\ writer = "none" /\ N = 0 /\ Xmin = 0
    /\ pc = "idle" /\ i = 0 /\ shown = NoFrame /\ frame = NoFrame
    /\ video = "unbound" /\ opens = 0
    /\ framesDir = FALSE /\ dir0 = FALSE
    /\ files = <<>> /\ videoFile = NoFile /\ result = None

MeshIdle ==
    /\ n = 0 /\ cpu = 1 /\ bad = {} /\ mpc = "idle" /\ task = <<>>
    /\ meshDir = FALSE /\ writes = <<>> /\ order = <<>>
    /\ queuedAtFail = {} /\ queuedAtAbort = {} /\ mresult = None

GeomInert ==
    /\ bounds = <<<<0, 0, 0>>, <<1, 1, 1>>>> /\ res = 0 /\ shape = <<1, 1>>
    /\ eta = <<>> /\ gpc = "idle" /\ resxyz = NoRes
    /\ point = NoPoint /\ sdfOut = NoOut

----------------------------------------------------------------------------
(* Specification of sdf: the inputs are drawn in SdfInit, the actions      *)
(* evaluate sdf once, at a lattice point or at a cell position.            *)

SdfInit ==
    /\ shape \in (1 .. MaxShape) \X (1 .. MaxShape)
    /\ eta = RampField(shape)
    /\ \E xlo \in {-1, 0}, ylo \in {-1, 0}, sx \in 1 .. MaxSpan, sy \in 1 .. MaxSpan :
           bounds = <<<<xlo, ylo, -1>>, <<xlo + sx, ylo + sy, 1>>>>
    /\ res = 0
    /\ gpc = "volume"
    /\ resxyz = NoRes
    /\ point = NoPoint
    /\ sdfOut = NoOut
    /\ AnimIdle /\ MeshIdle

SdfAtSample ==
    /\ gpc = "volume"
    /\ \E gx \in 1 .. MaxSamples, gy \in 1 .. MaxSamples, zi \in {0, 1} :
       \E kx \in 0 .. gx, ky \in 0 .. gy :
          LET x == SamplePos(kx, gx, bounds[1][1], bounds[2][1])
              y == SamplePos(ky, gy, bounds[1][2], bounds[2][2])
              z == FromInt(zi)
          IN  /\ point' = [kind |-> "sample", x |-> x, y |-> y, z |-> z]
              /\ sdfOut' = sdf(eta, shape, bounds, x, y, z)
    /\ gpc' = "sampled"
    /\ UNCHANGED <<bounds, res, shape, eta, resxyz, animVars, meshVars>>

SdfAtCell ==
    /\ gpc = "volume"
    /\ shape[1] >= 2 /\ shape[2] >= 2
    /\ \E c \in 0 .. shape[1] - 1, r \in 0 .. shape[2] - 1 :
          LET x == CellPos(c, shape[1], bounds[1][1], bounds[2][1])
              y == CellPos(r, shape[2], bounds[1][2], bounds[2][2])
              z == eta[<<c, r>>]
          IN  /\ point' = [kind |-> "cell", x |-> x, y |-> y, z |-> z,
                           c |-> c, r |-> r]
              /\ sdfOut' = sdf(eta, shape, bounds, x, y, z)
    /\ gpc' = "sampled"
    /\ UNCHANGED <<bounds, res, shape, eta, resxyz, animVars, meshVars>>

SdfNext == SdfAtSample \/ SdfAtCell

SdfSpec == SdfInit /\ [][SdfNext]_vars

\* the point lies in the box on the x and y axes
InBox ==
    /\ FLeq(FromInt(bounds[1][1]), point.x) /\ FLeq(point.x, FromInt(bounds[2][1]))
    /\ FLeq(FromInt(bounds[1][2]), point.y) /\ FLeq(point.y, FromInt(bounds[2][2]))

\* exact scaled index (len - 1) * (v - lo) / (hi - lo) of a float v: EN / ED
EN(len, v, lo) == (len - 1) * (Num(v) - lo * Den(v))
ED(v, lo, hi) == (hi - lo) * Den(v)

\* C6: sdf at the physical position of a cell, with z the height of that
\* cell, returns 0
C6_ZeroAtCell ==
    (gpc = "sampled" /\ point.kind = "cell")
        => (sdfOut.err = "none" /\ sdfOut.d = FromInt(0))

\* C9: for a point inside the box the indices sdf computes are inside the
\* height field, so eta[col, row] neither fails nor wraps
C9_IndexInRange ==
    (gpc = "sampled" /\ InBox)
        => /\ sdfOut.err = "none"
           /\ 0 <= sdfOut.col /\ sdfOut.col <= shape[1] - 1
           /\ 0 <= sdfOut.row /\ sdfOut.row <= shape[2] - 1

\* C9 witness: sdf evaluated on the upper faces of the box of a field with
\* several cells per axis, where the index is the last one
C9_Witness ==
    /\ gpc = "sampled" /\ InBox
    /\ shape[1] >= 3 /\ shape[2] >= 3
    /\ point.x = FromInt(bounds[2][1]) /\ point.y = FromInt(bounds[2][2])
    /\ sdfOut.col = shape[1] - 1 /\ sdfOut.row = shape[2] - 1

\* C6 witness of the failing case: the position computed for cell 1 is not
\* mapped back to cell 1
C6_Miss ==
    /\ gpc = "sampled" /\ point.kind = "cell"
    /\ (sdfOut.col # point.c \/ sdfOut.row # point.r)

\* C8 as stated: on each axis the index is the one closest to the exact
\* scaled index, and d is the height of that cell minus z
Nearest(k, len, v, lo, hi) ==
    2 * Abs(k * ED(v, lo, hi) - EN(len, v, lo)) <= ED(v, lo, hi)

Truncated(k, len, v, lo, hi) ==
    /\ k >= 0
    /\ k * ED(v, lo, hi) * 2^MantBits <= EN(len, v, lo) * (2^MantBits + 5)
    /\ (k + 1) * ED(v, lo, hi) * 2^MantBits > EN(len, v, lo) * (2^MantBits - 5)

----------------------------------------------------------------------------
(* Specification of the resolutions of get_mesh: the box and res are drawn *)
(* in ResInit, Resolutions computes resx, resy, resz.                      *)

ResInit ==
    /\ \E ex \in 1 .. MaxExtent, ey \in 1 .. MaxExtent, ez \in 1 .. MaxExtent,
          zlo \in {-1, 0} :
           bounds = <<<<0, 0, zlo>>, <<ex, ey, zlo + ez>>>>
    /\ res \in 1 .. MaxRes
    /\ shape = <<1, 1>>
    /\ eta = FlatField(shape)
    /\ gpc = "start"
    /\ resxyz = NoRes
    /\ point = NoPoint
    /\ sdfOut = NoOut
    /\ AnimIdle /\ MeshIdle

Resolutions ==
    /\ gpc = "start"
    /\ resxyz' = get_mesh_res(bounds, res)
    /\ gpc' = "volume"
    /\ UNCHANGED <<bounds, res, shape, eta, point, sdfOut, animVars, meshVars>>

ResNext == Resolutions

ResSpec == ResInit /\ [][ResNext]_vars

Extent(k) == bounds[2][k] - bounds[1][k]
Largest == CHOOSE m \in {Extent(1), Extent(2), Extent(3)} :
               \A k \in 1 .. 3 : Extent(k) <= m

\* C7: the longest axis gets exactly res voxels, every axis gets
\* floor(res * extent / largest extent), between 0 and res, and a box twice
\* as long in x as in y gets an x resolution within 1 of twice the y one
C7_Proportional ==
    gpc = "volume" =>
        \A k \in 1 .. 3 :
            /\ (Extent(k) = Largest => resxyz[k] = res)
            /\ resxyz[k] = (res * Extent(k)) \div Largest
            /\ 0 <= resxyz[k] /\ resxyz[k] <= res
            /\ (Extent(1) = 2 * Extent(2)
                    => Abs(resxyz[1] - 2 * resxyz[2]) <= 1)

\* the failing case of C7: the longest axis got fewer than res voxels
C7_Short ==
    /\ gpc = "volume"
    /\ \E k \in 1 .. 3 : Extent(k) = Largest /\ resxyz[k] < res

----------------------------------------------------------------------------
(* File names: f'frame_{i:08d}.png' and f'mesh_{i:08d}.obj' *)

Digit == <<"0", "1", "2", "3", "4", "5", "6", "7", "8", "9">>

RECURSIVE Dec(_)
\* decimal digits of k >= 0
Dec(k) == IF k < 10 THEN Digit[k + 1] ELSE Dec(k \div 10) \o Digit[(k % 10) + 1]

RECURSIVE ZeroPad(_, _)
\* left-pad with zeros to at least w characters
ZeroPad(str, w) == IF Len(str) >= w THEN str ELSE ZeroPad("0" \o str, w)

\* variant: index without zero padding
FrameName_nopad(k) == "frame_" \o Dec(k) \o ".png"

FrameName(k) == "frame_" \o ZeroPad(Dec(k), 8) \o ".png"

\* variant: name keyed by k mod 2 instead of k
MeshName_slot(k) == "mesh_" \o ZeroPad(Dec(k % 2), 8) \o ".obj"

MeshName(k) == "mesh_" \o ZeroPad(Dec(k), 8) \o ".obj"

\* [name -> value] extended or overwritten at one name
Put(f, name, val) ==
    [x \in DOMAIN f \cup {name} |-> IF x = name THEN val ELSE f[x]]

----------------------------------------------------------------------------
(* eta_animation, velocity_animation, eta_animation3D *)

Funcs == {"eta_animation", "velocity_animation", "eta_animation3D"}
Errors == {"IndexError", "ValueError", "NameError", "UnboundLocalError"}

\* int(0.02 * min(*X.shape)); the product is exact for the sizes drawn in Init
q_int == (2 * Xmin) \div 100

Init ==
    /\ func \in Funcs
    /\ writer \in {"opencv", "ffmpeg"}
    /\ N \in 0 .. MaxFrames
    /\ Xmin \in {49, 50}
    /\ pc = "setup"
    /\ i = 0
    /\ shown = NoFrame
    /\ frame = NoFrame
    /\ video = "unbound"
    /\ opens = 0
    /\ framesDir \in BOOLEAN
    /\ dir0 = framesDir
    /\ files = <<>>
    /\ videoFile = NoFile
    /\ result = None
    /\ GeomInert /\ MeshIdle

Raise(err) == pc' = "raised" /\ result' = err

\* lines 27-36, 117-126, 166-175: the figure is built from snapshot 0
Setup ==
    /\ pc = "setup"
    /\ IF func = "velocity_animation" /\ q_int = 0
       THEN Raise("ValueError") /\ UNCHANGED shown
       ELSE IF N = 0
            THEN Raise("IndexError") /\ UNCHANGED shown
            ELSE pc' = "branch" /\ shown' = 0 /\ UNCHANGED result
    /\ UNCHANGED <<func, writer, N, Xmin, i, frame, video, opens, framesDir,
                   dir0, files, videoFile, geomVars, meshVars>>

\* variant: the directory is made before the writer is tested
Mkdir_early ==
    /\ pc = "branch"
    /\ framesDir' = TRUE
    /\ pc' = IF writer = "opencv" THEN "for" ELSE "save"
    /\ i' = 0
    /\ UNCHANGED <<func, writer, N, Xmin, shown, frame, video, opens,
                   dir0, files, videoFile, result, geomVars, meshVars>>

\* lines 45-48: writer == 'opencv', frames_folder.mkdir(parents, exist_ok)
Mkdir ==
    /\ pc = "branch" /\ writer = "opencv"
    /\ framesDir' = TRUE
    /\ pc' = "for"
    /\ i' = 0
    /\ UNCHANGED <<func, writer, N, Xmin, shown, frame, video, opens,
                   dir0, files, videoFile, result, geomVars, meshVars>>

\* line 49: for i in range(len(eta_list))
For ==
    /\ pc = "for"
    /\ pc' = IF i < N THEN "update" ELSE "release"
    /\ UNCHANGED <<func, writer, N, Xmin, i, shown, frame, video, opens,
                   framesDir, dir0, files, videoFile, result, geomVars, meshVars>>

\* line 50: update_eta(i) / update_quiver(i) / update_surf(i)
Update ==
    /\ pc = "update"
    /\ shown' = i
    /\ pc' = "savefig"
    /\ UNCHANGED <<func, writer, N, Xmin, i, frame, video, opens, framesDir,
                   dir0, files, videoFile, result, geomVars, meshVars>>

\* lines 51-52: plt.savefig(frames_folder / f'frame_{i:08d}.png')
Savefig ==
    /\ pc = "savefig"
    /\ files' = Put(files, FrameName(i), shown)
    /\ pc' = "imopen"
    /\ UNCHANGED <<func, writer, N, Xmin, i, shown, frame, video, opens,
                   framesDir, dir0, videoFile, result, geomVars, meshVars>>

\* line 53: frame = Image.open(img_filename)
ImageOpen ==
    /\ pc = "imopen"
    /\ frame' = files[FrameName(i)]
    /\ pc' = "writer"
    /\ UNCHANGED <<func, writer, N, Xmin, i, shown, video, opens, framesDir,
                   dir0, files, videoFile, result, geomVars, meshVars>>

\* variant: a new container in every iteration
VideoWriter_always ==
    /\ pc = "writer"
    /\ video' = "open"
    /\ opens' = opens + 1
    /\ videoFile' = [exists |-> TRUE, frames |-> <<>>]
    /\ pc' = "write"
    /\ UNCHANGED <<func, writer, N, Xmin, i, shown, frame, framesDir, dir0,
                   files, result, geomVars, meshVars>>

\* lines 55-56: if i == 0: video = cv2.VideoWriter(video_name, ...)
VideoWriter ==
    /\ pc = "writer"
    /\ IF i = 0
       THEN /\ video' = "open"
            /\ opens' = opens + 1
            /\ videoFile' = [exists |-> TRUE, frames |-> <<>>]
       ELSE UNCHANGED <<video, opens, videoFile>>
    /\ pc' = "write"
    /\ UNCHANGED <<func, writer, N, Xmin, i, shown, frame, framesDir, dir0,
                   files, result, geomVars, meshVars>>

\* line 58: video.write(frame in BGR order); then the next iteration
VideoWrite ==
    /\ pc = "write"
    /\ IF video = "unbound"
       THEN Raise("UnboundLocalError") /\ UNCHANGED <<videoFile, i>>
       ELSE /\ videoFile' = [videoFile EXCEPT !.frames = Append(@, frame)]
            /\ i' = i + 1
            /\ pc' = "for"
            /\ UNCHANGED result
    /\ UNCHANGED <<func, writer, N, Xmin, shown, frame, video, opens,
                   framesDir, dir0, files, geomVars, meshVars>>

\* lines 60-61: cv2.destroyAllWindows(); video.release()
Release ==
    /\ pc = "release"
    /\ IF video = "unbound"
       THEN Raise("UnboundLocalError") /\ UNCHANGED video
       ELSE video' = "released" /\ pc' = "return" /\ UNCHANGED result
    /\ UNCHANGED <<func, writer, N, Xmin, i, shown, frame, opens, framesDir,
                   dir0, files, videoFile, geomVars, meshVars>>

\* line 62: return 0
Return ==
    /\ pc = "return"
    /\ result' = "0"
    /\ pc' = "returned"
    /\ UNCHANGED <<func, writer, N, Xmin, i, shown, frame, video, opens,
                   framesDir, dir0, files, videoFile, geomVars, meshVars>>

\* lines 63-67: else: anim = FuncAnimation(...); mpeg_writer = FFMpegWriter(...)
FuncAnimation ==
    /\ pc = "branch" /\ writer # "opencv"
    /\ pc' = "save"
    /\ UNCHANGED <<func, writer, N, Xmin, i, shown, frame, video, opens,
                   framesDir, dir0, files, videoFile, result, geomVars, meshVars>>

\* line 68: anim.save("{}.mp4".format(filename), ...): filename is not defined
AnimSave ==
    /\ pc = "save"
    /\ Raise("NameError")
    /\ UNCHANGED <<func, writer, N, Xmin, i, shown, frame, video, opens,
                   framesDir, dir0, files, videoFile, geomVars, meshVars>>

Next ==
    \/ Setup \/ Mkdir \/ For \/ Update \/ Savefig \/ ImageOpen
    \/ VideoWriter \/ VideoWrite \/ Release \/ Return
    \/ FuncAnimation \/ AnimSave

Spec == Init /\ [][Next]_vars

\* the names the frame files are to have, written out digit by digit
ExpectedFrame(k) ==
    IF k < 10 THEN "frame_0000000" \o Digit[k + 1] \o ".png"
    ELSE "frame_000000" \o Digit[(k \div 10) + 1] \o Digit[(k % 10) + 1] \o ".png"

\* C1: a completed run over N >= 1 snapshots with writer = 'opencv' leaves
\* exactly the N files frame_00000000.png .. frame_<N-1>.png and one video
\* container with exactly N frames appended
C1_FramesAndVideo ==
    (pc = "returned" /\ N >= 1) =>
        /\ writer = "opencv" /\ result = "0"
        /\ DOMAIN files = {ExpectedFrame(k) : k \in 0 .. N - 1}
        /\ Cardinality(DOMAIN files) = N
        /\ opens = 1
        /\ videoFile.exists
        /\ Len(videoFile.frames) = N

\* C1 witness: a completed run long enough to have two-digit frame indices
C1_Witness ==
    /\ pc = "returned" /\ N >= 11 /\ func = "velocity_animation"
    /\ Len(videoFile.frames) = N

\* C2: with N = 0 the call is a no-op that completes without an error
C2_EmptyNoOp ==
    (N = 0 /\ pc \in {"returned", "raised"}) =>
        /\ result \notin Errors
        /\ ~videoFile.exists /\ opens = 0
        /\ files = <<>>

\* the failing case of C2: the call on an empty sequence raised
C2_Raised == N = 0 /\ pc = "raised" /\ result = "IndexError"

\* C3: the container always holds the frames of snapshots 0..k-1 in order,
\* k <= N; it is opened once, at index 0, before any append; frame i is
\* appended only after frame file i is on disk; it is finalized only after
\* frame N-1 was appended and nothing is appended afterwards
C3_State ==
    /\ Len(videoFile.frames) <= N
    /\ \A k \in 1 .. Len(videoFile.frames) :
          /\ videoFile.frames[k] = k - 1
          /\ ExpectedFrame(k - 1) \in DOMAIN files
          /\ files[ExpectedFrame(k - 1)] = k - 1
    /\ opens <= 1
    /\ (videoFile.exists <=> opens = 1)
    /\ (video = "released" => Len(videoFile.frames) = N)

C3_Step ==
    /\ (opens' # opens) =>
          /\ i = 0 /\ opens = 0 /\ ~videoFile.exists
          /\ videoFile'.frames = <<>>
    /\ (videoFile'.frames # videoFile.frames) =>
          /\ video = "open" /\ videoFile.exists
          /\ videoFile'.frames = Append(videoFile.frames, i)
          /\ ExpectedFrame(i) \in DOMAIN files
    /\ (video = "released") =>
          /\ video' = "released"
          /\ videoFile' = videoFile

C3_OrderedAppends == []C3_State /\ [][C3_Step]_vars

\* C3 witness: a finalized container of several frames
C3_Witness ==
    /\ video = "released" /\ N >= 3
    /\ videoFile.frames = [k \in 1 .. N |-> k - 1]

----------------------------------------------------------------------------
(* eta_meshes: Parallel(n_jobs=MAX_THREADS)(delayed(get_mesh)(i, ...))      *)
(* The pool hands the tasks to its workers in index order.  With one       *)
(* worker the tasks run one after another in the caller and an exception   *)
(* leaves the loop at once; with several workers the owner learns of a     *)
(* failed task in a step of its own (Abort), which ends the workers.       *)

\* line 19
MAX_THREADS == Min2(cpu, 64)

Tasks == 0 .. n - 1
Queued == {k \in Tasks : task[k] = "queued"}
Busy == {k \in Tasks : task[k] \in {"running", "extracted"}}
Failed == {k \in Tasks : task[k] = "failed"}

MeshInit ==
    /\ n \in 0 .. MaxTasks
    /\ cpu \in {1, 2, 3, 65}
    /\ bad \in SUBSET (0 .. n - 1)
    /\ mpc = "setup"
    /\ task = [k \in 0 .. n - 1 |-> "queued"]
    /\ meshDir \in BOOLEAN
    /\ writes = <<>>
    /\ order = <<>>
    /\ queuedAtFail = {}
    /\ queuedAtAbort = {}
    /\ mresult = None
    /\ GeomInert /\ AnimIdle

\* lines 77-80: meshes_folder.mkdir(parents=True, exist_ok=True)
MeshSetup ==
    /\ mpc = "setup"
    /\ meshDir' = TRUE
    /\ mpc' = "parallel"
    /\ UNCHANGED <<n, cpu, bad, task, writes, order, queuedAtFail,
                   queuedAtAbort, mresult, geomVars, animVars>>

\* a free worker takes the next queued task
Start(k) ==
    /\ mpc = "parallel"
    /\ task[k] = "queued"
    /\ \A j \in Queued : k <= j
    /\ Cardinality(Busy) < MAX_THREADS
    /\ task' = [task EXCEPT ![k] = "running"]
    /\ UNCHANGED <<n, cpu, bad, mpc, meshDir, writes, order, queuedAtFail,
                   queuedAtAbort, mresult, geomVars, animVars>>

\* lines 84-101: resolutions, sdf, marching_cubes_func; raises for a bad snapshot
Extract(k) ==
    /\ mpc = "parallel"
    /\ task[k] = "running"
    /\ IF k \in bad
       THEN /\ task' = [task EXCEPT ![k] = "failed"]
            /\ queuedAtFail' = IF Failed = {} THEN Queued ELSE queuedAtFail
            /\ IF MAX_THREADS = 1
               THEN /\ mpc' = "raised"
                    /\ mresult' = "error"
                    /\ queuedAtAbort' = Queued
               ELSE UNCHANGED <<mpc, mresult, queuedAtAbort>>
       ELSE /\ task' = [task EXCEPT ![k] = "extracted"]
            /\ UNCHANGED <<queuedAtFail, mpc, mresult, queuedAtAbort>>
    /\ UNCHANGED <<n, cpu, bad, meshDir, writes, order, geomVars, animVars>>

\* line 104: mcubes.export_obj(vertices, triangles, .../f'mesh_{i:08d}.obj')
Export(k) ==
    /\ mpc = "parallel"
    /\ task[k] = "extracted"
    /\ writes' = Put(writes, MeshName(k),
                     IF MeshName(k) \in DOMAIN writes
                     THEN Append(writes[MeshName(k)], k) ELSE <<k>>)
    /\ task' = [task EXCEPT ![k] = "done"]
    /\ order' = Append(order, k)
    /\ UNCHANGED <<n, cpu, bad, mpc, meshDir, queuedAtFail, queuedAtAbort,
                   mresult, geomVars, animVars>>

\* line 107: Parallel ends its workers and re-raises the task's exception
Abort ==
    /\ mpc = "parallel"
    /\ Failed # {}
    /\ task' = [k \in Tasks |-> IF k \in Busy THEN "killed" ELSE task[k]]
    /\ queuedAtAbort' = Queued
    /\ mpc' = "raised"
    /\ mresult' = "error"
    /\ UNCHANGED <<n, cpu, bad, meshDir, writes, order, queuedAtFail,
                   geomVars, animVars>>

\* variant: a failed task counts as finished and its exception is dropped
MeshReturn_any ==
    /\ mpc = "parallel"
    /\ \A k \in Tasks : task[k] \in {"done", "failed"}
    /\ mresult' = "0"
    /\ mpc' = "returned"
    /\ UNCHANGED <<n, cpu, bad, task, meshDir, writes, order, queuedAtFail,
                   queuedAtAbort, geomVars, animVars>>

\* lines 107-109: Parallel returns once every task is done; return 0
MeshReturn ==
    /\ mpc = "parallel"
    /\ \A k \in Tasks : task[k] = "done"
    /\ mresult' = "0"
    /\ mpc' = "returned"
    /\ UNCHANGED <<n, cpu, bad, task, meshDir, writes, order, queuedAtFail,
                   queuedAtAbort, geomVars, animVars>>

MeshNext ==
    \/ MeshSetup
    \/ \E k \in Tasks : Start(k)
    \/ \E k \in Tasks : Extract(k)
    \/ \E k \in Tasks : Export(k)
    \/ Abort
    \/ MeshReturn

MeshSpec == MeshInit /\ [][MeshNext]_vars

\* the names the mesh files are to have
ExpectedMesh(k) == "mesh_0000000" \o Digit[k + 1] \o ".obj"

\* C4: when no task fails, under every interleaving, the call returns only
\* after all n tasks are done, exactly the files mesh_00000000.obj ..
\* mesh_<n-1>.obj exist, and each was written once, by its own task
C4_MeshPerTask ==
    (bad = {} /\ mpc # "idle") =>
        /\ mpc # "raised"
        /\ \A name \in DOMAIN writes : Len(writes[name]) = 1
        /\ \A k \in Tasks :
              (task[k] = "done") <=>
                  (ExpectedMesh(k) \in DOMAIN writes /\ writes[ExpectedMesh(k)] = <<k>>)
        /\ (mpc = "returned") =>
              /\ mresult = "0"
              /\ \A k \in Tasks : task[k] = "done"
              /\ DOMAIN writes = {ExpectedMesh(k) : k \in Tasks}
              /\ Cardinality(DOMAIN writes) = n

\* C4 witness: a returned call whose tasks ran on several workers and
\* completed out of index order
C4_Witness ==
    /\ bad = {} /\ mpc = "returned" /\ n >= 3 /\ MAX_THREADS >= 2
    /\ order[1] # 0
    /\ Cardinality(DOMAIN writes) = n

\* C5: once a task has failed, eta_meshes does not return 0 and no mesh
\* file exists for any task that was queued when the task failed
C5_NoFileForQueued ==
    (Failed # {}) =>
        /\ mpc # "returned" /\ mresult # "0"
        /\ \A j \in queuedAtFail : ExpectedMesh(j) \notin DOMAIN writes

\* C5 amended: once a task has failed, eta_meshes does not return 0; after
\* the pool was aborted no mesh file exists for any task that was queued at
\* the abort; with one worker that is every task queued at the failure
C5_NoFileAfterAbort ==
    (Failed # {}) =>
        /\ mpc # "returned" /\ mresult # "0"
        /\ (mpc = "raised") =>
              /\ mresult = "error"
              /\ \A j \in queuedAtAbort :
                    task[j] = "queued" /\ ExpectedMesh(j) \notin DOMAIN writes
        /\ (MAX_THREADS = 1) =>
              /\ queuedAtAbort = queuedAtFail
              /\ \A j \in queuedAtFail : ExpectedMesh(j) \notin DOMAIN writes

\* C5 witness: an aborted batch on several workers in which one task that
\* was queued at the failure wrote its file and another was never started
C5_Witness ==
    /\ mpc = "raised" /\ MAX_THREADS >= 2
    /\ queuedAtAbort # {}
    /\ \E j \in queuedAtFail \ queuedAtAbort : ExpectedMesh(j) \in DOMAIN writes

====
